---------------------------- MODULE Spec2Model ----------------------------
(***************************************************************************)
(* A model of UK-IPOP/geocoder: src/geocoding/geocode.py (address          *)
(* building, the geocoding loop, the reconciliation of geocoded and raw    *)
(* coordinates) and scripts/drug_extraction.py (the classification        *)
(* sweep).                                                                 *)
(*                                                                         *)
(* A Python str is a sequence of one-character strings; a missing cell     *)
(* (NaN / None) of a text column is the sequence NaN, which is no str.     *)
(* A float cell is a string such as "38.95", a missing one is "nan".       *)
(***************************************************************************)
EXTENDS Integers, Sequences, FiniteSets

VARIABLES
    pc,         \* position of the running function
    street,     \* clean_address: its argument
    cleaned,    \* clean_address(street)
    recleaned,  \* clean_address(clean_address(street))
    row,        \* create_address: the row
    flag,       \* create_address: the flag
    ret,        \* create_address: locals and what it returned or raised
    cases,      \* main: the case file, a sequence of rows
    no_geo,     \* main: the rows of cases that lack a coordinate
    results,    \* run_geocoding: the results list
    calls,      \* the provider's log: each query and its answer, in order
    df,         \* combine_geo_results: the frame it returns
    drug_df,    \* drug_extraction: df, a sequence of rows
    dff,        \* drug_extraction: the flag columns written so far
    key_i       \* drug_extraction: number of taxonomy entries swept

vars == <<pc, street, cleaned, recleaned, row, flag, ret, cases, no_geo,
          results, calls, df, drug_df, dff, key_i>>

-----------------------------------------------------------------------------
(* Bounds *)

\* streets are concatenations of at most MaxTokens tokens
MaxTokens == 3
\* the case file holds at most MaxRows rows
MaxRows == 2
\* the drug frame holds at most MaxRecords rows
MaxRecords == 2

-----------------------------------------------------------------------------
(* Python values *)

NaN == <<"NaN">>
isna(x) == x = NaN
notna(x) == x # NaN

LowerLetters == <<"a","b","c","d","e","f","g","h","i","j","k","l","m",
                  "n","o","p","q","r","s","t","u","v","w","x","y","z">>
UpperLetters == <<"A","B","C","D","E","F","G","H","I","J","K","L","M",
                  "N","O","P","Q","R","S","T","U","V","W","X","Y","Z">>
Digits == {"0","1","2","3","4","5","6","7","8","9"}
LowerSet == {LowerLetters[i] : i \in 1..Len(LowerLetters)}
UpperSet == {UpperLetters[i] : i \in 1..Len(UpperLetters)}
Whitespace == {" ", "\t", "\n", "\r"}

IsCased(c) == c \in LowerSet \/ c \in UpperSet
LetterIndex(c, letters) == CHOOSE i \in 1..Len(letters) : letters[i] = c
LowerCh(c) == IF c \in UpperSet THEN LowerLetters[LetterIndex(c, UpperLetters)] ELSE c
UpperCh(c) == IF c \in LowerSet THEN UpperLetters[LetterIndex(c, LowerLetters)] ELSE c

\* str.lower(), str.upper()
lower(s) == [i \in 1..Len(s) |-> LowerCh(s[i])]
upper(s) == [i \in 1..Len(s) |-> UpperCh(s[i])]

\* str.title(): a cased character is upper-cased when the character before it
\* is not cased, and lower-cased when it is
title(s) ==
    [i \in 1..Len(s) |->
        IF i > 1 /\ IsCased(s[i-1]) THEN LowerCh(s[i]) ELSE UpperCh(s[i])]

\* str.strip()
strip(s) ==
    LET keep == {i \in 1..Len(s) : s[i] \notin Whitespace}
    IN  IF keep = {} THEN <<>>
        ELSE LET first == CHOOSE i \in keep : \A j \in keep : i <= j
                 last  == CHOOSE i \in keep : \A j \in keep : j <= i
             IN  SubSeq(s, first, last)

\* sub in s
StartsAt(s, i, sub) ==
    /\ i >= 1
    /\ i + Len(sub) - 1 <= Len(s)
    /\ \A j \in 1..Len(sub) : s[i + j - 1] = sub[j]
Contains(s, sub) == \E i \in 1..(Len(s) + 1) : StartsAt(s, i, sub)

-----------------------------------------------------------------------------
(* remove_apartment_info and clean_address *)

APT == <<"a","p","t">>
HASH == <<"#">>
NH == <<"n","h",",">>

\* the regex dot: any character but a newline
Dot(c) == c # "\n"

\* greedy .* from index i: the index of the last character it takes (i - 1
\* when it takes none)
DotStarEnd(x, i) ==
    LET stops == {j \in i..Len(x) : ~Dot(x[j])}
    IN  IF stops = {} THEN Len(x)
        ELSE (CHOOSE j \in stops : \A k \in stops : j <= k) - 1

\* r"apt.*|\#.*|.*nh," tried at index i: the index of the last character of
\* the match, 0 when no alternative matches there.  The alternatives are tried
\* in order; .*nh, backtracks from the end of the line to the last "nh,".
Regex1MatchEnd(x, i) ==
    IF StartsAt(x, i, APT) THEN DotStarEnd(x, i + 3)
    ELSE IF StartsAt(x, i, HASH) THEN DotStarEnd(x, i + 1)
    ELSE LET ks == {k \in i..(DotStarEnd(x, i) + 1) : StartsAt(x, k, NH)}
         IN  IF ks = {} THEN 0
             ELSE (CHOOSE k \in ks : \A m \in ks : m <= k) + 2

\* re.sub(regex 1, "", x), scanning from index i: a match is dropped and the
\* scan resumes after it, an unmatched character is copied
RECURSIVE Regex1Sub(_, _)
Regex1Sub(x, i) ==
    IF i > Len(x) THEN <<>>
    ELSE LET e == Regex1MatchEnd(x, i)
         IN  IF e >= i THEN Regex1Sub(x, e + 1)
             ELSE <<x[i]>> \o Regex1Sub(x, i + 1)

\* [^a-zA-Z0-9.\s] is what regex 2 removes
Regex2Keeps(c) ==
    c \in LowerSet \/ c \in UpperSet \/ c \in Digits \/ c = "." \/ c \in Whitespace

\* a bug remove_apartment_info could have: result1 returned
remove_apartment_info_result1(x) == Regex1Sub(x, 1)

remove_apartment_info(x) ==
    LET result1 == Regex1Sub(x, 1)
        result2 == SelectSeq(result1, Regex2Keeps)
    IN  result2

UNK == <<"u","n","k">>
N_A == <<"n","/","a">>
SAME == <<"s","a","m","e">>
NONE == <<"n","o","n","e">>

\* None is the missing value NaN
clean_address(st) ==
    IF isna(st) THEN NaN
    ELSE LET s == strip(lower(st))
         IN  IF Contains(s, UNK) \/ Contains(s, N_A) \/ s = SAME \/ s = NONE
             THEN NaN
             ELSE remove_apartment_info(s)

-----------------------------------------------------------------------------
(* Inputs of clean_address *)

StreetTokens ==
    {APT, HASH, NH, <<" ">>, <<"\n">>, <<"1">>, <<"M">>, <<"-">>, <<"k">>, <<"u","n">>}

RECURSIVE TokenStrings(_)
TokenStrings(n) ==
    IF n = 0 THEN {<<>>}
    ELSE LET shorter == TokenStrings(n - 1)
         IN  shorter \cup {s \o t : s \in shorter, t \in StreetTokens}

ExampleStreet ==
    <<"1","2","3"," ","M","a","i","n"," ","S","t"," ","A","p","t"," ","#","4","B">>

SpecialStreets ==
    { NaN, ExampleStreet, SAME, <<" ","S","a","m","e"," ">>, <<"N","O","N","E">>,
      <<"N","/","A">>, <<"U","n","k","n","o","w","n">>,
      <<"n","o","n","e"," ","1">> }

Streets == TokenStrings(MaxTokens) \cup SpecialStreets


-----------------------------------------------------------------------------
(* The variables by function *)

cleanVars == <<street, cleaned, recleaned>>
addrVars == <<row, flag, ret>>
geoVars == <<cases, no_geo, results, calls, df>>
drugVars == <<drug_df, dff, key_i>>

IdleClean == street = <<>> /\ cleaned = <<>> /\ recleaned = <<>>
IdleAddr == row = <<>> /\ flag = "" /\ ret = <<>>
IdleGeo == cases = <<>> /\ no_geo = <<>> /\ results = <<>> /\ calls = <<>> /\ df = <<>>
IdleDrug == drug_df = <<>> /\ dff = <<>> /\ key_i = 0

-----------------------------------------------------------------------------
(* clean_address applied to a street, and to its own result *)

InitClean ==
    /\ pc = "clean_address"
    /\ street \in Streets
    /\ cleaned = <<>>
    /\ recleaned = <<>>
    /\ IdleAddr /\ IdleGeo /\ IdleDrug

CleanAddress ==
    /\ pc = "clean_address"
    /\ cleaned' = clean_address(street)
    /\ pc' = "clean_again"
    /\ UNCHANGED <<street, recleaned, addrVars, geoVars, drugVars>>

CleanAgain ==
    /\ pc = "clean_again"
    /\ recleaned' = clean_address(cleaned)
    /\ pc' = "cleaned_twice"
    /\ UNCHANGED <<street, cleaned, addrVars, geoVars, drugVars>>

NextClean == CleanAddress \/ CleanAgain

SpecClean == InitClean /\ [][NextClean]_vars

-----------------------------------------------------------------------------
(* city_sub and create_address *)

\* a str that is neither None nor empty
Truthy(x) == notna(x) /\ x # <<>>
\* {x if x else ''} of the f-strings
OrEmpty(x) == IF Truthy(x) THEN x ELSE <<>>
SP == <<" ">>

\* a bug city_sub could have: the residence city looked at first
city_sub_residence_first(r) ==
    IF notna(r.residence_city) THEN <<strip(title(r.residence_city)), TRUE>>
    ELSE IF notna(r.incident_city) THEN <<strip(title(r.incident_city)), FALSE>>
    ELSE <<<<>>, FALSE>>

\* <<city, subbed>>
city_sub(r) ==
    IF notna(r.incident_city)
    THEN <<strip(title(r.incident_city)), FALSE>>
    ELSE IF isna(r.incident_city) /\ notna(r.residence_city)
    THEN <<strip(title(r.residence_city)), TRUE>>
    ELSE <<<<>>, FALSE>>

Returned(address, subbed, st, city, state, zip_code) ==
    [raised |-> "", address |-> address, subbed |-> subbed,
     street |-> st, city |-> city, state |-> state, zip_code |-> zip_code]
Raised(exception, st) ==
    [raised |-> exception, address |-> NaN, subbed |-> FALSE,
     street |-> st, city |-> NaN, state |-> NaN, zip_code |-> NaN]

\* what create_address returns or raises, with its locals
create_address(r, f) ==
    IF f = "incident" THEN
        LET st == IF notna(r.incident_street)
                  THEN clean_address(r.incident_street) ELSE <<>>
            cs == city_sub(r)
            city == cs[1]
            subbed == cs[2]
            zip_code == IF isna(r.incident_zip) THEN <<>> ELSE r.incident_zip
            address == strip(upper(OrEmpty(st) \o SP \o OrEmpty(city)
                                   \o SP \o OrEmpty(zip_code)))
        IN  Returned(address, subbed, st, city, <<>>, zip_code)
    ELSE IF f = "death" THEN
        LET st == IF notna(r.death_street)
                  THEN clean_address(r.death_street) ELSE <<>>
        IN  IF isna(r.death_city)
            \* a float has no .title()
            THEN Raised("AttributeError", st)
            ELSE
            LET city == strip(title(r.death_city))
                state == IF notna(r.death_state)
                         THEN strip(title(r.death_state)) ELSE <<>>
                zip_code == IF isna(r.death_zip) THEN <<>> ELSE r.death_zip
                address == strip(upper(OrEmpty(st) \o SP \o OrEmpty(city)
                                       \o SP \o OrEmpty(state)
                                       \o SP \o OrEmpty(zip_code)))
            IN  Returned(address, FALSE, st, city, state, zip_code)
    ELSE Raised("ValueError", NaN)

COLUMBIA == <<"c","o","l","u","m","b","i","a">>
ZIP65201 == <<"6","5","2","0","1">>

IncidentStreets ==
    { NaN, ExampleStreet, <<"9"," ","O","a","k"," ","A","v","e">>, SAME, <<" ">> }
IncidentCities ==
    { NaN, COLUMBIA, <<" ","s","t","."," ","l","o","u","i","s"," ">>,
      <<"o","'","F","A","L","L","O","N">>, <<" ">> }
ResidenceCities == { NaN, COLUMBIA, <<"k","a","n","s","a","s"," ","c","i","t","y"," ">> }
Zips == { NaN, ZIP65201 }
DeathStreets == { NaN, <<"9"," ","O","a","k"," ","A","v","e">> }
DeathCities == { NaN, COLUMBIA }
DeathStates == { NaN, <<"m","o">> }
Flags == { "incident", "death", "home" }

Rows ==
    [ incident_street : IncidentStreets, incident_city : IncidentCities,
      residence_city : ResidenceCities, incident_zip : Zips,
      death_street : DeathStreets, death_city : DeathCities,
      death_state : DeathStates, death_zip : Zips ]

InitAddr ==
    /\ pc = "create_address"
    /\ row \in Rows
    /\ flag \in Flags
    /\ ret = <<>>
    /\ IdleClean /\ IdleGeo /\ IdleDrug

\* prepare_df applies create_address to a row
CreateAddress ==
    /\ pc = "create_address"
    /\ ret' = create_address(row, flag)
    /\ pc' = "returned"
    /\ UNCHANGED <<row, flag, cleanVars, geoVars, drugVars>>

NextAddr == CreateAddress

SpecAddr == InitAddr /\ [][NextAddr]_vars

-----------------------------------------------------------------------------
(* run_geocoding, composite_lat_long, combine_geo_results, main *)

\* a missing float cell (None, NaN)
NoneF == "nan"
isnaF(x) == x = NoneF
notnaF(x) == x # NoneF

UNKNOWN == <<"u","n","k","n","o","w","n">>

\* the dict appended for an address that is skipped or has no candidate
NullResult(address) ==
    [address |-> address, latitude |-> NoneF, longitude |-> NoneF, score |-> NoneF]

\* a bug the loop could have: the last candidate taken for the best
LastResult(geocoded_info) ==
    LET best_result == geocoded_info[Len(geocoded_info)]
    IN  [address |-> best_result.address,
         latitude |-> best_result.location.y,
         longitude |-> best_result.location.x,
         score |-> best_result.score]

\* geo_data of the top-ranked candidate
BestResult(geocoded_info) ==
    LET best_result == geocoded_info[1]
    IN  [address |-> best_result.address,
         latitude |-> best_result.location.y,
         longitude |-> best_result.location.x,
         score |-> best_result.score]

\* the test that skips the provider call
SkipsLookup(address) == isna(address) \/ Contains(address, UNKNOWN)

\* a bug the loop could have: an address already queried is not queried again
geocode_cached(address, geocoded_info, sent) ==
    IF \E j \in 1..Len(sent) : sent[j].query = address
    THEN sent
    ELSE Append(sent, [query |-> address, response |-> geocoded_info])

\* geocode(address, ...) answers geocoded_info: the provider's log after the call
geocode(address, geocoded_info, sent) ==
    Append(sent, [query |-> address, response |-> geocoded_info])

\* a bug composite_lat_long could have: the geocoded coordinate preferred
composite_lat_long_geocoded_first(r, toggle) ==
    IF toggle = "lat" THEN
        IF notnaF(r.geocoded_latitude) THEN r.geocoded_latitude
        ELSE IF notnaF(r.latitude) THEN r.latitude
        ELSE NoneF
    ELSE IF toggle = "long" THEN
        IF notnaF(r.geocoded_longitude) THEN r.geocoded_longitude
        ELSE IF notnaF(r.longitude) THEN r.longitude
        ELSE NoneF
    ELSE "Exception"

composite_lat_long(r, toggle) ==
    IF toggle = "lat" THEN
        IF notnaF(r.latitude) THEN r.latitude
        ELSE IF notnaF(r.geocoded_latitude) THEN r.geocoded_latitude
        ELSE NoneF
    ELSE IF toggle = "long" THEN
        IF notnaF(r.longitude) THEN r.longitude
        ELSE IF notnaF(r.geocoded_longitude) THEN r.geocoded_longitude
        ELSE NoneF
    ELSE "Exception"

\* a bug the recovered flag could have: gated on the coordinate, not the score
recovered_by_coordinate(r) == IF notnaF(r.geocoded_latitude) THEN 1 ELSE 0

\* lambda x: 1 if pd.notna(x) else 0, on the row's geocoded_score
recovered(r) == IF notnaF(r.geocoded_score) THEN 1 ELSE 0

\* one row of the left frame with the geocoded columns of a row of the right
\* frame
Joined(l, g) ==
    [casenumber |-> l.casenumber, latitude |-> l.latitude,
     longitude |-> l.longitude, full_address |-> l.full_address,
     geocoded_latitude |-> g.geocoded_latitude,
     geocoded_longitude |-> g.geocoded_longitude,
     geocoded_score |-> g.geocoded_score,
     geocoded_address |-> g.geocoded_address]

NoMatch ==
    [geocoded_latitude |-> NoneF, geocoded_longitude |-> NoneF,
     geocoded_score |-> NoneF, geocoded_address |-> NaN]

\* pd.merge(left, right, on="casenumber", how="left"): every left row, in
\* order, once per right row of its casenumber, or once with missing cells
RECURSIVE MergeLeft(_, _)
MergeLeft(left, right) ==
    IF left = <<>> THEN <<>>
    ELSE LET l == Head(left)
             hits == SelectSeq(right, LAMBDA g : g.casenumber = l.casenumber)
             rows == IF hits = <<>> THEN <<Joined(l, NoMatch)>>
                     ELSE [j \in 1..Len(hits) |-> Joined(l, hits[j])]
         IN  rows \o MergeLeft(Tail(left), right)

WithComposite(r) ==
    [casenumber |-> r.casenumber, latitude |-> r.latitude,
     longitude |-> r.longitude, full_address |-> r.full_address,
     geocoded_latitude |-> r.geocoded_latitude,
     geocoded_longitude |-> r.geocoded_longitude,
     geocoded_score |-> r.geocoded_score,
     geocoded_address |-> r.geocoded_address,
     recovered |-> recovered(r),
     final_latitude |-> composite_lat_long(r, "lat"),
     final_longitude |-> composite_lat_long(r, "long")]

combine_geo_results(coded_df, original_df) ==
    LET merged == MergeLeft(original_df, coded_df)
    IN  [j \in 1..Len(merged) |-> WithComposite(merged[j])]

\* main, lines 214-217: the results assigned to the rows of no_geo
Coded(rows, res) ==
    [j \in 1..Len(rows) |->
        [casenumber |-> rows[j].casenumber,
         geocoded_latitude |-> res[j].latitude,
         geocoded_longitude |-> res[j].longitude,
         geocoded_score |-> res[j].score,
         geocoded_address |-> res[j].address]]

ELM == <<"1","2"," ","E","L","M"," ","S","T">>
GeoAddresses ==
    { NaN, ELM, <<"1"," ","u","n","k","n","o","w","n"," ","r","d">>,
      <<"U","N","K","N","O","W","N"," ","R","D">> }
RawLatitudes == { NoneF, "38.95" }
RawLongitudes == { NoneF, "-92.30" }

\* what the provider may answer: no candidate, two ranked candidates, one
\* candidate without a score
Candidate1 ==
    [address |-> <<"1","2"," ","E","l","m"," ","S","t",","," ","C","o","l","u","m","b","i","a",","," ","M","O">>,
     location |-> [x |-> "-92.33", y |-> "38.90"], score |-> "91"]
Candidate2 ==
    [address |-> <<"E","l","m"," ","S","t">>,
     location |-> [x |-> "-92.10", y |-> "38.50"], score |-> "80"]
Candidate3 ==
    [address |-> <<"E","l","m"," ","S","t">>,
     location |-> [x |-> "-92.10", y |-> "38.50"], score |-> NoneF]
Responses == { <<>>, <<Candidate1, Candidate2>>, <<Candidate3>> }

CaseRows(n) ==
    [ casenumber : {n}, latitude : RawLatitudes, longitude : RawLongitudes,
      full_address : GeoAddresses ]

\* case files of n rows; the casenumber of a row is unique
RECURSIVE CaseFiles(_)
CaseFiles(n) ==
    IF n = 0 THEN {<<>>}
    ELSE {Append(f, r) : f \in CaseFiles(n - 1), r \in CaseRows(n)}

InitGeo ==
    /\ pc = "main"
    /\ cases \in UNION {CaseFiles(n) : n \in 1..MaxRows}
    /\ no_geo = <<>>
    /\ results = <<>>
    /\ calls = <<>>
    /\ df = <<>>
    /\ IdleClean /\ IdleAddr /\ IdleDrug

\* main, lines 206-211: the rows that lack a coordinate
MainSelect ==
    /\ pc = "main"
    /\ no_geo' = SelectSeq(cases, LAMBDA r : isnaF(r.latitude) \/ isnaF(r.longitude))
    /\ pc' = "run_geocoding"
    /\ UNCHANGED <<cases, results, calls, df, cleanVars, addrVars, drugVars>>

\* one pass of the loop of run_geocoding, on the next address
RunGeocodingStep ==
    /\ pc = "run_geocoding"
    /\ Len(results) < Len(no_geo)
    /\ LET address == no_geo[Len(results) + 1].full_address
       IN  IF SkipsLookup(address)
           THEN /\ results' = Append(results, NullResult(address))
                /\ calls' = calls
           ELSE \E geocoded_info \in Responses :
                   /\ calls' = geocode(address, geocoded_info, calls)
                   /\ results' = Append(results,
                                        IF geocoded_info # <<>>
                                        THEN BestResult(geocoded_info)
                                        ELSE NullResult(address))
    /\ UNCHANGED <<pc, cases, no_geo, df, cleanVars, addrVars, drugVars>>

\* main, lines 213-218: run_geocoding returned; its results become columns of
\* no_geo and combine_geo_results builds the frame that is saved
MainCombine ==
    /\ pc = "run_geocoding"
    /\ Len(results) = Len(no_geo)
    /\ df' = combine_geo_results(Coded(no_geo, results), cases)
    /\ pc' = "saved"
    /\ UNCHANGED <<cases, no_geo, results, calls, cleanVars, addrVars, drugVars>>

NextGeo == MainSelect \/ RunGeocodingStep \/ MainCombine

SpecGeo == InitGeo /\ [][NextGeo]_vars

-----------------------------------------------------------------------------
(* scripts/drug_extraction.py: the sweep over the taxonomy *)

FENTANYL == <<"f","e","n","t","a","n","y","l">>
HEROIN == <<"h","e","r","o","i","n">>
OXYCODONE == <<"o","x","y","c","o","d","o","n","e">>
COCAINE == <<"c","o","c","a","i","n","e">>
METHADONE == <<"m","e","t","h","a","d","o","n","e">>

\* de.DRUG_CLASSIFICATIONS, in the order of the dict
DRUG_CLASSIFICATIONS ==
    << [key |-> "opioids", value |-> {FENTANYL, HEROIN, OXYCODONE}],
       [key |-> "stimulants", value |-> {COCAINE}],
       [key |-> "maintenance", value |-> {METHADONE}] >>

\* de.search_handler: whether the lower-cased text contains a search word;
\* a missing text contains none
search_handler(x, search_words) ==
    IF isna(x) THEN FALSE
    ELSE \E w \in search_words : Contains(lower(x), w)

PrimaryCauses ==
    { NaN,
      <<"D","e","a","t","h"," ","d","u","e"," ","t","o"," ","f","e","n","t","a","n","y","l"," ","a","n","d"," ","h","e","r","o","i","n"," ","t","o","x","i","c","i","t","y">>,
      <<"C","O","C","A","I","N","E"," ","t","o","x","i","c","i","t","y">>,
      <<"a"," ","f","a","l","l">> }
\* de.make_combined_secondary leaves no missing secondary_combined
SecondaryCombined ==
    { <<>>, <<"M","e","t","h","a","d","o","n","e">>,
      <<"c","o","c","a","i","n","e"," ","h","e","r","o","i","n">> }

DrugRows == [ primarycause : PrimaryCauses, secondary_combined : SecondaryCombined ]

RECURSIVE DrugFrames(_)
DrugFrames(n) ==
    IF n = 0 THEN {<<>>}
    ELSE {Append(f, r) : f \in DrugFrames(n - 1), r \in DrugRows}

InitDrug ==
    /\ pc = "sweep"
    /\ drug_df \in UNION {DrugFrames(n) : n \in 1..MaxRecords}
    /\ dff = <<>>
    /\ key_i = 0
    /\ IdleClean /\ IdleAddr /\ IdleGeo

\* the frame with one more column (or the column overwritten)
SetColumn(frame, name, cells) ==
    [c \in DOMAIN frame \cup {name} |-> IF c = name THEN cells ELSE frame[c]]

\* a bug the loop could have: the secondary flag computed from primarycause
SweepStepPrimaryTwice ==
    /\ pc = "sweep"
    /\ key_i < Len(DRUG_CLASSIFICATIONS)
    /\ LET key == DRUG_CLASSIFICATIONS[key_i + 1].key
           value == DRUG_CLASSIFICATIONS[key_i + 1].value
           primary == [j \in 1..Len(drug_df) |->
                          search_handler(drug_df[j].primarycause, value)]
       IN  dff' = SetColumn(SetColumn(dff, <<key, "primary">>, primary),
                            <<key, "secondary">>, primary)
    /\ key_i' = key_i + 1
    /\ UNCHANGED <<pc, drug_df, cleanVars, addrVars, geoVars>>

\* one pass of the loop over DRUG_CLASSIFICATIONS.items(): the columns
\* f"{key}_primary" and f"{key}_secondary" are <<key, "primary">> and
\* <<key, "secondary">>
SweepStep ==
    /\ pc = "sweep"
    /\ key_i < Len(DRUG_CLASSIFICATIONS)
    /\ LET key == DRUG_CLASSIFICATIONS[key_i + 1].key
           value == DRUG_CLASSIFICATIONS[key_i + 1].value
           primary == [j \in 1..Len(drug_df) |->
                          search_handler(drug_df[j].primarycause, value)]
           secondary == [j \in 1..Len(drug_df) |->
                            search_handler(drug_df[j].secondary_combined, value)]
       IN  dff' = SetColumn(SetColumn(dff, <<key, "primary">>, primary),
                            <<key, "secondary">>, secondary)
    /\ key_i' = key_i + 1
    /\ UNCHANGED <<pc, drug_df, cleanVars, addrVars, geoVars>>

\* the loop is over
SweepDone ==
    /\ pc = "sweep"
    /\ key_i = Len(DRUG_CLASSIFICATIONS)
    /\ pc' = "swept"
    /\ UNCHANGED <<drug_df, dff, key_i, cleanVars, addrVars, geoVars>>

NextDrug == SweepStep \/ SweepDone

SpecDrug == InitDrug /\ [][NextDrug]_vars

-----------------------------------------------------------------------------
(* The claims: create_address *)

\* the non-empty parts joined by one space
RECURSIVE SingleSpaced(_)
SingleSpaced(parts) ==
    IF parts = <<>> THEN <<>>
    ELSE LET rest == SingleSpaced(Tail(parts))
         IN  IF Head(parts) = <<>> THEN rest
             ELSE IF rest = <<>> THEN Head(parts)
             ELSE Head(parts) \o SP \o rest

ExampleRow(r) ==
    /\ r.incident_street = ExampleStreet
    /\ isna(r.incident_city)
    /\ r.residence_city = COLUMBIA
    /\ r.incident_zip = ZIP65201

ExampleAddress ==
    <<"1","2","3"," ","M","A","I","N"," ","S","T"," ","C","O","L","U","M","B","I","A"," ","6","5","2","0","1">>

\* C1: for the incident context the address is the cleaned street, the city
\* and the zip, upper-cased and joined by exactly one space between non-empty
\* components, with no whitespace left where an apartment marker was removed;
\* the example row yields "123 MAIN ST COLUMBIA 65201" with the city
\* substituted
C1_AddressSingleSpaced ==
    (pc = "returned" /\ flag = "incident") =>
        /\ ret.raised = ""
        /\ ret.address = upper(SingleSpaced(<<strip(OrEmpty(ret.street)),
                                              strip(OrEmpty(ret.city)),
                                              strip(OrEmpty(ret.zip_code))>>))
        /\ ExampleRow(row) => (ret.address = ExampleAddress /\ ret.subbed)

\* the leading whitespace of s, counted
LeadingSpaces(s) ==
    Cardinality({i \in 1..Len(s) : \A j \in 1..i : s[j] \in Whitespace})
TrailingSpaces(s) ==
    Cardinality({i \in 1..Len(s) : \A j \in i..Len(s) : s[j] \in Whitespace})

\* c is src without its leading and trailing whitespace, every letter that
\* follows a letter in lower case and every other letter in upper case
IsTitledTrimmed(c, src) ==
    LET lead == LeadingSpaces(src)
        trail == TrailingSpaces(src)
    IN  IF lead = Len(src) THEN c = <<>>
        ELSE /\ Len(c) = Len(src) - lead - trail
             /\ \A i \in 1..Len(c) :
                   LET ch == src[lead + i]
                       after_letter == lead + i > 1 /\ IsCased(src[lead + i - 1])
                   IN  IF ~IsCased(ch) THEN c[i] = ch
                       ELSE /\ LowerCh(c[i]) = LowerCh(ch)
                            /\ IF after_letter THEN c[i] \in LowerSet
                               ELSE c[i] \in UpperSet

\* C3: for the incident context the city is substituted exactly when
\* incident_city is missing and residence_city is not; the city is the
\* title-cased, trimmed residence_city when substituted, the title-cased,
\* trimmed incident_city when that is present, and empty when both are missing
C3_CitySubstitution ==
    (pc = "returned" /\ flag = "incident") =>
        /\ ret.subbed <=> (isna(row.incident_city) /\ notna(row.residence_city))
        /\ ret.subbed => IsTitledTrimmed(ret.city, row.residence_city)
        /\ notna(row.incident_city) => IsTitledTrimmed(ret.city, row.incident_city)
        /\ (isna(row.incident_city) /\ isna(row.residence_city)) => ret.city = <<>>

\* a residence city with a trailing space substituted, title-cased and trimmed
C3_Witness ==
    /\ pc = "returned" /\ flag = "incident"
    /\ isna(row.incident_city)
    /\ row.residence_city = <<"k","a","n","s","a","s"," ","c","i","t","y"," ">>
    /\ ret.subbed
    /\ ret.city = <<"K","a","n","s","a","s"," ","C","i","t","y">>

\* C6: for the incident and the death context create_address raises nothing,
\* whichever address fields are missing, and returns a string
C6_NeverRaises ==
    (pc = "returned" /\ flag \in {"incident", "death"}) =>
        /\ ret.raised = ""
        /\ notna(ret.address)

-----------------------------------------------------------------------------
(* The claims: clean_address *)

\* C2: clean_address applied to its own result returns that result
C2_CleanIdempotent ==
    pc = "cleaned_twice" => recleaned = cleaned

\* the lines of s, without their newlines
RECURSIVE SplitLines(_)
SplitLines(s) ==
    LET nl == {i \in 1..Len(s) : s[i] = "\n"}
    IN  IF nl = {} THEN <<s>>
        ELSE LET i == CHOOSE k \in nl : \A m \in nl : k <= m
             IN  <<SubSeq(s, 1, i - 1)>> \o SplitLines(SubSeq(s, i + 1, Len(s)))

RECURSIVE JoinLines(_)
JoinLines(ls) ==
    IF Len(ls) = 1 THEN ls[1]
    ELSE ls[1] \o <<"\n">> \o JoinLines(Tail(ls))

Positions(l, marks) == {i \in 1..Len(l) : \E m \in marks : StartsAt(l, i, m)}
Least(S) == CHOOSE i \in S : \A j \in S : i <= j
Greatest(S) == CHOOSE i \in S : \A j \in S : j <= i

\* the text of l before its first mark, all of l when it has none
BeforeFirst(l, marks) ==
    IF Positions(l, marks) = {} THEN l
    ELSE SubSeq(l, 1, Least(Positions(l, marks)) - 1)

\* the text of l after its last "nh,", all of l when it has none
AfterLastNh(l) ==
    IF Positions(l, {NH}) = {} THEN l
    ELSE SubSeq(l, Greatest(Positions(l, {NH})) + 3, Len(l))

\* what is kept of one line
KeptOfLine(l) ==
    IF StartsAt(l, 1, APT) \/ StartsAt(l, 1, HASH) THEN <<>>
    ELSE BeforeFirst(AfterLastNh(l), {APT, HASH})

KeptOfLines(s) ==
    LET ls == SplitLines(s)
    IN  JoinLines([j \in 1..Len(ls) |-> KeptOfLine(ls[j])])

\* C10, as amended: for a street that is not treated as absent, clean_address
\* works on the lower-cased, trimmed street line by line: a line that begins
\* with "apt" or "#" is dropped whole; of any other line the text up to and
\* including its last "nh," is dropped, and of what follows, the text from the
\* first "apt" or "#" on; then every character other than letters, digits, '.'
\* and whitespace is removed.  A street without "apt", "#" and "nh," is not
\* truncated.
C10_CleanDropsThroughNh ==
    (pc = "clean_again" /\ notna(cleaned)) =>
        LET s == strip(lower(street))
        IN  /\ cleaned = SelectSeq(KeptOfLines(s), Regex2Keeps)
            /\ Positions(s, {APT, HASH, NH}) = {} =>
                   cleaned = SelectSeq(s, Regex2Keeps)

\* the text before "nh," is dropped and the text after it is kept
C10_Witness ==
    /\ pc = "clean_again"
    /\ street = <<"1","n","h",",","M">>
    /\ cleaned = <<"m">>

\* C10, as claimed, for a street of one line: the text before the first
\* "apt", "#" or "nh," is kept and the marker and everything after it is
\* removed, then the disallowed characters
C10_CleanKeepsTextBeforeMarker ==
    (pc = "clean_again" /\ notna(cleaned) /\ Positions(street, {<<"\n">>}) = {}) =>
        cleaned = SelectSeq(BeforeFirst(strip(lower(street)), {APT, HASH, NH}),
                            Regex2Keeps)

-----------------------------------------------------------------------------
(* The claims: run_geocoding *)

\* an address that is a string without "unknown"
RequiresLookup(a) ==
    /\ a # NaN
    /\ ~\E i \in 1..(Len(a) - 6) : SubSeq(a, i, i + 6) = UNKNOWN

\* the addresses the loop has been through
Processed == [j \in 1..Len(results) |-> no_geo[j].full_address]
\* how many of the first i of them required a lookup
LookupsUpTo(i) == Cardinality({j \in 1..i : RequiresLookup(Processed[j])})

AllNull ==
    [address |-> NaN, latitude |-> NoneF, longitude |-> NoneF, score |-> NoneF]
Echo(a) ==
    [address |-> a, latitude |-> NoneF, longitude |-> NoneF, score |-> NoneF]
TopOf(response) ==
    [address |-> response[1].address, latitude |-> response[1].location.y,
     longitude |-> response[1].location.x, score |-> response[1].score]

\* C7, as claimed: an address that is missing or contains "unknown" is not
\* sent to the provider and its result is all null, the matched address
\* included; so is the result of an address without candidates; any other
\* result is the top-ranked candidate's
C7_AllNullTuple ==
    /\ Len(calls) = LookupsUpTo(Len(results))
    /\ \A i \in 1..Len(results) :
          IF ~RequiresLookup(Processed[i]) THEN results[i] = AllNull
          ELSE LET call == calls[LookupsUpTo(i)]
               IN  /\ call.query = Processed[i]
                   /\ results[i] = IF call.response = <<>> THEN AllNull
                                   ELSE TopOf(call.response)

\* C7, as amended: an address that is missing or contains "unknown" is not
\* sent to the provider; its result has latitude, longitude and score null
\* and the input address as its address (null only when the input is); so has
\* the result of an address without candidates; any other result is the
\* top-ranked candidate's
C7_NullCoordinatesEchoAddress ==
    /\ Len(calls) = LookupsUpTo(Len(results))
    /\ \A i \in 1..Len(results) :
          IF ~RequiresLookup(Processed[i]) THEN results[i] = Echo(Processed[i])
          ELSE LET call == calls[LookupsUpTo(i)]
               IN  /\ call.query = Processed[i]
                   /\ results[i] = IF call.response = <<>> THEN Echo(Processed[i])
                                   ELSE TopOf(call.response)

\* an "unknown" address skipped, then an address answered with two candidates
C7_Witness ==
    /\ Len(results) = 2
    /\ Processed[1] = <<"1"," ","u","n","k","n","o","w","n"," ","r","d">>
    /\ results[1].address = Processed[1] /\ results[1].score = NoneF
    /\ Len(calls) = 1
    /\ calls[1].response = <<Candidate1, Candidate2>>
    /\ results[2].score = "91" /\ results[2].latitude = "38.90"

\* C8, as claimed: the provider is queried once for every distinct address
\* that requires a lookup, and never twice for the same address string
C8_OncePerDistinctAddress ==
    /\ \A j, k \in 1..Len(calls) : calls[j].query = calls[k].query => j = k
    /\ {calls[j].query : j \in 1..Len(calls)}
           = {Processed[j] : j \in {k \in 1..Len(results) : RequiresLookup(Processed[k])}}

\* C8, as amended: the provider is queried once for every position of the
\* list whose address requires a lookup, in the order of the list; an address
\* that several positions share is queried once for each of them
C8_OncePerPosition ==
    /\ Len(calls) = LookupsUpTo(Len(results))
    /\ \A i \in 1..Len(results) :
          RequiresLookup(Processed[i]) => calls[LookupsUpTo(i)].query = Processed[i]
    /\ \A j \in 1..Len(calls) : RequiresLookup(calls[j].query)

\* two rows share an address and the provider was queried for each
C8_Witness ==
    /\ pc = "saved"
    /\ Len(calls) = 2
    /\ calls[1].query = ELM /\ calls[2].query = ELM

-----------------------------------------------------------------------------
(* The claims: combine_geo_results *)

\* the results of the rows of no_geo with casenumber n
ResultsOf(n) == {results[k] : k \in {j \in 1..Len(no_geo) : no_geo[j].casenumber = n}}
GeocodedLatitude(n) ==
    IF ResultsOf(n) = {} THEN NoneF ELSE (CHOOSE r \in ResultsOf(n) : TRUE).latitude
GeocodedLongitude(n) ==
    IF ResultsOf(n) = {} THEN NoneF ELSE (CHOOSE r \in ResultsOf(n) : TRUE).longitude
GeocodedScore(n) ==
    IF ResultsOf(n) = {} THEN NoneF ELSE (CHOOSE r \in ResultsOf(n) : TRUE).score

FirstNonNull(raw, geocoded) ==
    CASE raw # NoneF -> raw
      [] raw = NoneF /\ geocoded # NoneF -> geocoded
      [] OTHER -> NoneF

\* C4: in the frame combine_geo_results returns, each row's final latitude is
\* the raw latitude when there is one, else the geocoded latitude, and missing
\* only when both are; the same for the longitude, on its own
C4_CompositeCoordinates ==
    pc = "saved" =>
        /\ Len(df) = Len(cases)
        /\ \A j \in 1..Len(df) :
              LET n == cases[j].casenumber
              IN  /\ df[j].casenumber = n
                  /\ df[j].final_latitude
                         = FirstNonNull(cases[j].latitude, GeocodedLatitude(n))
                  /\ df[j].final_longitude
                         = FirstNonNull(cases[j].longitude, GeocodedLongitude(n))
                  /\ df[j].final_latitude = NoneF <=>
                         (cases[j].latitude = NoneF /\ GeocodedLatitude(n) = NoneF)
                  /\ df[j].final_longitude = NoneF <=>
                         (cases[j].longitude = NoneF /\ GeocodedLongitude(n) = NoneF)

\* raw latitude 38.95, no raw longitude, geocoded 38.90/-92.33: the final
\* latitude is the raw one, the final longitude the geocoded one
C4_Witness ==
    /\ pc = "saved"
    /\ \E j \in 1..Len(df) :
          /\ df[j].latitude = "38.95" /\ df[j].longitude = NoneF
          /\ df[j].geocoded_latitude = "38.90" /\ df[j].geocoded_longitude = "-92.33"
          /\ df[j].final_latitude = "38.95" /\ df[j].final_longitude = "-92.33"

\* C5: in the frame combine_geo_results returns, recovered is 1 exactly when
\* the row's geocoded score is present, whatever its coordinates; a row
\* geocoded without a score and a row that was not geocoded have 0
C5_RecoveredIffScore ==
    pc = "saved" =>
        /\ Len(df) = Len(cases)
        /\ \A j \in 1..Len(df) :
              LET n == cases[j].casenumber
              IN  /\ df[j].geocoded_score = GeocodedScore(n)
                  /\ df[j].recovered \in {0, 1}
                  /\ df[j].recovered = 1 <=> GeocodedScore(n) # NoneF
                  /\ ResultsOf(n) = {} => df[j].recovered = 0

\* a row with both raw coordinates, which is not geocoded, and a row geocoded
\* with coordinates and no score: neither is recovered
C5_Witness ==
    /\ pc = "saved"
    /\ \E j, k \in 1..Len(df) :
          /\ ResultsOf(cases[j].casenumber) = {}
          /\ df[j].recovered = 0
          /\ df[k].geocoded_latitude # NoneF /\ df[k].geocoded_score = NoneF
          /\ df[k].recovered = 0

-----------------------------------------------------------------------------
(* The claims: the classification sweep *)

\* text has a term of terms in it, whatever the case of its letters
HasTerm(text, terms) ==
    /\ text # NaN
    /\ \E w \in terms : \E i \in 1..Len(text) :
          /\ i + Len(w) - 1 <= Len(text)
          /\ \A n \in 1..Len(w) : LowerCh(text[i + n - 1]) = LowerCh(w[n])

\* C9: after the sweep every class has its primary and its secondary column,
\* and a flag is true exactly when the row's text (primarycause, or
\* secondary_combined) is present and has a term of that class in it
C9_SweepFlags ==
    pc = "swept" =>
        \A c \in 1..Len(DRUG_CLASSIFICATIONS) :
            LET key == DRUG_CLASSIFICATIONS[c].key
                terms == DRUG_CLASSIFICATIONS[c].value
            IN  /\ <<key, "primary">> \in DOMAIN dff
                /\ <<key, "secondary">> \in DOMAIN dff
                /\ Len(dff[<<key, "primary">>]) = Len(drug_df)
                /\ Len(dff[<<key, "secondary">>]) = Len(drug_df)
                /\ \A j \in 1..Len(drug_df) :
                      /\ dff[<<key, "primary">>][j]
                             <=> HasTerm(drug_df[j].primarycause, terms)
                      /\ dff[<<key, "secondary">>][j]
                             <=> HasTerm(drug_df[j].secondary_combined, terms)

\* a row without primarycause, with "Methadone" as its secondary text: only
\* the secondary flag of the class of methadone is set
C9_Witness ==
    /\ pc = "swept"
    /\ \E j \in 1..Len(drug_df) :
          /\ drug_df[j].primarycause = NaN
          /\ drug_df[j].secondary_combined = <<"M","e","t","h","a","d","o","n","e">>
          /\ dff[<<"maintenance", "secondary">>][j]
          /\ ~dff[<<"maintenance", "primary">>][j]
          /\ ~dff[<<"opioids", "secondary">>][j]
          /\ ~dff[<<"stimulants", "secondary">>][j]

=============================================================================
